---- MODULE Spec2Model ----
(***************************************************************************)
(* Hypergraph construction for payment networks: the builders of           *)
(* LNTrafficSimulator/scripts/topologies (fhs.py, nch.py, utils.py), the   *)
(* capacity redistribution and the clique export of the make_*_edges       *)
(* scripts, over a model of the networkx Graph they work on.               *)
(*                                                                         *)
(* A networkx Graph keeps its nodes and every adjacency in insertion       *)
(* order (dicts), and the builders' results depend on that order, so a     *)
(* graph is a record [nodes: sequence, adj: node -> sequence].             *)
(***************************************************************************)
EXTENDS Integers, Sequences, FiniteSets, TLC

VARIABLES
    script,               \* the entry point that runs
    df,                   \* the rows of ln_edges.csv: <<src, trg, capacity>>
    G_input,              \* the caller's graph
    edge_capacity,        \* the 'capacity' attribute of G_input's edges
    m_max,                \* create_fhs: the hyperedge size
    seed,                 \* the salt of hash() in this process
    use_edge_capacity,    \* create_fhs: the flag of that name
    G,                    \* create_fhs: the working copy
    hyperedges,           \* the hyperedges built so far (Python index i is i+1)
    node_to_hyperedges,   \* node -> the indices of its hyperedges
    node_caps,            \* (node, index) -> capacity
    pc,                   \* where the run is
    starts,               \* history: the node each iteration selected
    before,               \* history: the edges of G before each iteration
    max_nodes,            \* greedy_vertex_cover: the size cap, or None
    H,                    \* greedy_vertex_cover: the working copy
    cover,                \* greedy_vertex_cover: the cover set
    max_clique_size,      \* the clique export's threshold, None before it
    exporter,             \* the clique export that ran, "" before it
    error,                \* the error the export raised, "" for none
    rows_out,             \* the directed records the export produced
    max_search_depth,     \* select_supernodes: the longest path searched
    max_states,           \* select_supernodes: the budget of one search
    S,                    \* select_supernodes: the supernode set
    todo,                 \* select_supernodes: the nodes its loop has to visit
    searches              \* history: the calls of exists_monotone_path

params == <<script, df, m_max, seed, use_edge_capacity, max_nodes,
            max_search_depth, max_states>>

inputs == <<params, G_input, edge_capacity>>

fhsState == <<G, starts, before>>

nchState == <<H, cover>>

results == <<hyperedges, node_to_hyperedges, node_caps>>

export == <<max_clique_size, exporter, error, rows_out>>

snState == <<S, todo, searches>>

vars == <<inputs, fhsState, nchState, results, pc, export, snState>>

\* ---------------------------------------------------------------- bounds
NumNodes == 4
MaxEdges == 4
MaxM == 3
NumSeeds == 2
NumLayouts == 4
MaxCoverCap == 2
MaxCap == 2
MaxCliqueSize == 3

Nodes == 1..NumNodes
\* create_fhs does not stop on its own when an iteration removes nothing; the
\* model follows its loop for at most this many iterations.
IterCap == MaxEdges + 2

\* Python's None, where the model's values are integers.
None == -1

\* An edge without the 'capacity' attribute.
NoCap == None

\* ------------------------------------------------------- sequence helpers
SeqContains(s, x) == \E i \in DOMAIN s : s[i] = x

SeqRemove(s, x) == SelectSeq(s, LAMBDA y : y # x)

SeqToSet(s) == {s[i] : i \in DOMAIN s}

RECURSIVE SumOver(_, _)
SumOver(A, f) ==
    IF A = {} THEN 0
    ELSE LET x == CHOOSE y \in A : TRUE IN f[x] + SumOver(A \ {x}, f)

\* ------------------------------------------------------ networkx.Graph
\* A Graph is an object: id tells the objects apart. Graph() of the caller is
\* object 0, a method that changes a graph in place keeps its id.
EmptyGraph == [id |-> 0, nodes |-> <<>>, adj |-> [n \in Nodes |-> <<>>]]

HasNode(g, n) == SeqContains(g.nodes, n)

NodeSet(g) == SeqToSet(g.nodes)

\* Graph.add_edge(u, v): new nodes are appended to the node dict, u first;
\* adj[u][v] and adj[v][u] are set, an existing key keeping its position.
AddEdge(g, u, v) ==
    LET n1 == IF HasNode(g, u) THEN g.nodes ELSE Append(g.nodes, u)
        n2 == IF SeqContains(n1, v) THEN n1 ELSE Append(n1, v)
        a1 == IF SeqContains(g.adj[u], v) THEN g.adj
              ELSE [g.adj EXCEPT ![u] = Append(@, v)]
        a2 == IF SeqContains(a1[v], u) THEN a1
              ELSE [a1 EXCEPT ![v] = Append(@, u)]
    IN [id |-> g.id, nodes |-> n2, adj |-> a2]

RECURSIVE AddEdgesFrom(_, _)
AddEdgesFrom(g, es) ==
    IF es = <<>> THEN g
    ELSE AddEdgesFrom(AddEdge(g, Head(es)[1], Head(es)[2]), Tail(es))

\* utils.edges_df_to_nx: one add_edge per row, in row order.
edges_df_to_nx(rows) == AddEdgesFrom(EmptyGraph, rows)

\* Graph.degree(n): the number of neighbours, a self-loop counted twice.
Degree(g, n) == Len(g.adj[n]) + (IF SeqContains(g.adj[n], n) THEN 1 ELSE 0)

\* Graph.number_of_edges(): half the sum of the degrees.
NumberOfEdges(g) == SumOver(NodeSet(g), [n \in Nodes |-> Degree(g, n)]) \div 2

NumberOfNodes(g) == Len(g.nodes)

\* The undirected edges of g as sets {u, v} (a self-loop is {u}).
EdgeSet(g) == UNION {{{u, v} : v \in SeqToSet(g.adj[u])} : u \in Nodes}

\* The adjacency listing Graph.copy() feeds to add_edges_from: for u in node
\* order, for v in adj[u] order, the pair (u, v).
RECURSIVE AdjPairs(_, _)
AdjPairs(g, ns) ==
    IF ns = <<>> THEN <<>>
    ELSE [i \in DOMAIN g.adj[Head(ns)] |-> <<Head(ns), g.adj[Head(ns)][i]>>]
         \o AdjPairs(g, Tail(ns))

\* Copy that hands back the graph itself.
NoCopy(g) == g

\* Graph.copy(): a new graph, the nodes added in order, then every (u, v) of
\* the adjacency listing added with add_edge (which may reorder adjacencies).
Copy(g) ==
    AddEdgesFrom([id |-> g.id + 1, nodes |-> g.nodes, adj |-> [n \in Nodes |-> <<>>]],
                 AdjPairs(g, g.nodes))

\* Graph.remove_edges_from(ebunch) for a set of edges {u, v}.
RemoveEdgesFrom(g, es) ==
    [id |-> g.id, nodes |-> g.nodes,
     adj |-> [u \in Nodes |->
                SelectSeq(g.adj[u], LAMBDA v : {u, v} \notin es)]]

\* Graph.remove_nodes_from(ns) / Graph.remove_node(n).
RemoveNodesFrom(g, ns) ==
    [id |-> g.id, nodes |-> SelectSeq(g.nodes, LAMBDA n : n \notin ns),
     adj |-> [u \in Nodes |->
                IF u \in ns THEN <<>>
                ELSE SelectSeq(g.adj[u], LAMBDA v : v \notin ns)]]

RemoveNode(g, n) == RemoveNodesFrom(g, {n})

\* The caller's graph g_in after a change in place that left the working
\* graph as g_work: the same graph when the two are one object.
AfterChangeOf(g_in, g_work) == IF g_work.id = g_in.id THEN g_work ELSE g_in

\* The 'capacity' attributes ecap of the caller's graph once it is g_in: the
\* attributes of an edge go with the edge.
AttrsLeft(g_in, ecap) == [e \in EdgeSet(g_in) \cap DOMAIN ecap |-> ecap[e]]

\* ------------------------------------------------------------ fhs.py
\* hash(n): for a string node the value is salted per process; seed stands
\* for the salt. Seed 1 is the hash of small non-negative integers, n itself.
Hash(n, sd) == (n * sd) % (NumNodes + 1)

\* max(G.nodes(), key=lambda n: (G.degree(n), -hash(n))): Python's max keeps
\* the first element whose key no later element exceeds.
RECURSIVE MaxDegHash(_, _, _, _)
MaxDegHash(g, ns, best, sd) ==
    IF ns = <<>> THEN best
    ELSE LET n == Head(ns)
             greater == \/ Degree(g, n) > Degree(g, best)
                        \/ /\ Degree(g, n) = Degree(g, best)
                           /\ 0 - Hash(n, sd) > 0 - Hash(best, sd)
         IN MaxDegHash(g, Tail(ns), IF greater THEN n ELSE best, sd)

highest_degree_node(g, sd) == MaxDegHash(g, Tail(g.nodes), Head(g.nodes), sd)

\* BfsScan without the break at m_max: every unvisited neighbour is collected.
RECURSIVE BfsScanNoBreak(_, _, _, _)
BfsScanNoBreak(nbs, q, collected, m) ==
    IF nbs = <<>> THEN [q |-> q, collected |-> collected]
    ELSE LET nb == Head(nbs) IN
         IF SeqContains(collected, nb)
         THEN BfsScanNoBreak(Tail(nbs), q, collected, m)
         ELSE BfsScanNoBreak(Tail(nbs), Append(q, nb), Append(collected, nb), m)

\* The inner for loop of bfs_collect_m over the neighbours nbs of cur.
RECURSIVE BfsScan(_, _, _, _)
BfsScan(nbs, q, collected, m) ==
    IF nbs = <<>> THEN [q |-> q, collected |-> collected]
    ELSE LET nb == Head(nbs) IN
         IF SeqContains(collected, nb)
         THEN BfsScan(Tail(nbs), q, collected, m)
         ELSE IF Len(collected) + 1 >= m
              THEN [q |-> Append(q, nb), collected |-> Append(collected, nb)]
              ELSE BfsScan(Tail(nbs), Append(q, nb), Append(collected, nb), m)

\* The while loop of bfs_collect_m (visited is the set of collected nodes).
RECURSIVE BfsLoop(_, _, _, _)
BfsLoop(g, q, collected, m) ==
    IF q = <<>> \/ Len(collected) >= m THEN collected
    ELSE LET r == BfsScan(g.adj[Head(q)], Tail(q), collected, m)
         IN BfsLoop(g, r.q, r.collected, m)

bfs_collect_m(g, start_node, m) == BfsLoop(g, <<start_node>>, <<start_node>>, m)

\* InternalEdges with `v in Ve_set` dropped: every edge with an end in Ve_set.
InternalEdgesAnyEnd(g, Ve) ==
    {e \in EdgeSet(g) : e \cap Ve # {} /\ \E u \in e : \E v \in e : u < v}

\* internal_edges of create_fhs: the pairs (u, v), u < v, adjacent in G, with
\* both ends in Ve_set.
InternalEdges(g, Ve) ==
    {e \in EdgeSet(g) : e \subseteq Ve /\ \E u \in e : \E v \in e : u < v}

\* Isolated without the search: no node is removed after the edges.
NoneIsolated(g) == {}

\* Isolated with `d <= 1` for `d == 0`.
IsolatedOrLeaf(g) == {n \in NodeSet(g) : Degree(g, n) <= 1}

\* The nodes of degree 0 create_fhs removes after the edges.
Isolated(g) == {n \in NodeSet(g) : Degree(g, n) = 0}

\* One pass of the main loop of create_fhs on the working graph g.
FhsBody(g, hs, n2h, m, sd) ==
    LET node == highest_degree_node(g, sd)
        Ve_list == bfs_collect_m(g, node, m)
        Ve_set == SeqToSet(Ve_list)
        hed_idx == Len(hs)
        g1 == RemoveEdgesFrom(g, InternalEdges(g, Ve_set))
        g2 == RemoveNodesFrom(g1, Isolated(g1))
    IN [G |-> g2,
        hyperedges |-> Append(hs, Ve_set),
        node_to_hyperedges |->
            [v \in DOMAIN n2h |->
                IF v \in Ve_set THEN Append(n2h[v], hed_idx) ELSE n2h[v]],
        node |-> node]

\* No clique export has run.
NoExport ==
    /\ max_clique_size = None
    /\ exporter = ""
    /\ error = ""
    /\ rows_out = <<>>

\* select_supernodes is not running.
NoSupernodes ==
    /\ max_search_depth = None
    /\ max_states = None
    /\ S = {}
    /\ todo = <<>>
    /\ searches = {}

\* Python index idx of a hyperedge list.
HedAt(hs, idx) == hs[idx + 1]

\* ------------------------------------------------------------- inputs
\* The edge tables read from ln_edges.csv: rows (src, trg) with src # trg and
\* no pair of nodes twice (add_edge on an existing edge changes nothing, so a
\* table with repeated rows builds a graph that one without them builds too).
\* A table lists a set of at most MaxEdges edges in one of NumLayouts
\* layouts: rows ascending or descending, each row written low-high or
\* high-low, the table rotated.
AllEdges == {e \in SUBSET Nodes : Cardinality(e) = 2}

EdgeSets(maxLen) == {es \in SUBSET AllEdges : Cardinality(es) <= maxLen}

Lo(e) == CHOOSE a \in e : \A b \in e : a <= b

Hi(e) == CHOOSE a \in e : \A b \in e : a >= b

EdgeKey(e) == Lo(e) * (NumNodes + 1) + Hi(e)

Layout(es, L) ==
    LET n == Cardinality(es)
        flip == L % 2 = 1
        desc == (L \div 2) % 2 = 1
        rot == L \div 4
        asc == [i \in 1..n |->
                  CHOOSE e \in es :
                      Cardinality({f \in es : EdgeKey(f) < EdgeKey(e)}) = i - 1]
        ord == [i \in 1..n |-> IF desc THEN asc[n + 1 - i] ELSE asc[i]]
        rotd == [i \in 1..n |-> ord[((i - 1 + rot) % n) + 1]]
    IN [i \in 1..n |->
          IF flip THEN <<Hi(rotd[i]), Lo(rotd[i])>> ELSE <<Lo(rotd[i]), Hi(rotd[i])>>]

EdgeTables(maxLen) ==
    {Layout(es, L) : es \in EdgeSets(maxLen), L \in 0..(NumLayouts - 1)}


\* ------------------------------------------------------- create_fhs
\* create_fhs up to its main loop: the working copy and the empty results.
FhsEnter(g_in) ==
    [G |-> Copy(g_in),
     hyperedges |-> <<>>,
     node_to_hyperedges |-> [n \in NodeSet(g_in) |-> <<>>]]

InitFHS ==
    /\ script = "create_fhs"
    /\ \E t \in EdgeTables(MaxEdges) :
          /\ df = [i \in DOMAIN t |-> <<t[i][1], t[i][2], 1>>]
          /\ G_input = edges_df_to_nx(t)
    /\ edge_capacity = [e \in EdgeSet(G_input) |-> NoCap]
    /\ m_max \in 1..MaxM
    /\ seed \in 1..NumSeeds
    /\ use_edge_capacity = FALSE
    /\ G = FhsEnter(G_input).G
    /\ hyperedges = FhsEnter(G_input).hyperedges
    /\ node_to_hyperedges = FhsEnter(G_input).node_to_hyperedges
    /\ node_caps = <<>>
    /\ pc = "fhs_loop"
    /\ starts = <<>>
    /\ before = <<>>
    /\ max_nodes = None
    /\ H = EmptyGraph
    /\ cover = {}
    /\ NoExport
    /\ NoSupernodes

\* One iteration of `while G.number_of_edges() > 0` (fhs.py 46-77).
FhsIteration ==
    /\ pc = "fhs_loop"
    /\ NumberOfEdges(G) > 0
    /\ NumberOfNodes(G) # 0
    /\ Len(hyperedges) < IterCap
    /\ LET r == FhsBody(G, hyperedges, node_to_hyperedges, m_max, seed) IN
         /\ G' = r.G
         /\ hyperedges' = r.hyperedges
         /\ node_to_hyperedges' = r.node_to_hyperedges
         /\ starts' = Append(starts, r.node)
    /\ before' = Append(before, EdgeSet(G))
    /\ G_input' = AfterChangeOf(G_input, G')
    /\ edge_capacity' = AttrsLeft(G_input', edge_capacity)
    /\ UNCHANGED <<params, snState, nchState, node_caps, pc, export>>

\* node_total of create_fhs (fhs.py 86-91): every edge of G_input credits its
\* 'capacity' attribute (0.0 when it has none) to both its ends.
FhsNodeTotal(g_in, ecap) ==
    [n \in NodeSet(g_in) |->
        SumOver({e \in EdgeSet(g_in) : n \in e},
                [e \in EdgeSet(g_in) |-> IF ecap[e] = NoCap THEN 0 ELSE ecap[e]])]

\* A float quotient a / b, kept as the fraction <<a, b>>.
Quot(a, b) == <<a, b>>

\* The (node, index) keys a membership index gives a capacity allocation.
CapKeys(n2h) == UNION {{<<v, n2h[v][j]>> : j \in DOMAIN n2h[v]} : v \in DOMAIN n2h}

\* node_capacity_in_hyperedge of create_fhs (fhs.py 80-108).
FhsCapacity(g_in, ecap, n2h, use_cap) ==
    IF ~use_cap THEN <<>>
    ELSE IF \E e \in EdgeSet(g_in) : ecap[e] # NoCap
         THEN [key \in CapKeys(n2h) |->
                 Quot(FhsNodeTotal(g_in, ecap)[key[1]], Len(n2h[key[1]]))]
         ELSE [key \in CapKeys(n2h) |-> Quot(1, Len(n2h[key[1]]))]

\* The loop exit, the capacity split and the return of create_fhs.
FhsReturn ==
    /\ pc = "fhs_loop"
    /\ ~(NumberOfEdges(G) > 0)
    /\ node_caps' = FhsCapacity(G_input, edge_capacity, node_to_hyperedges,
                                use_edge_capacity)
    /\ pc' = "fhs_done"
    /\ UNCHANGED <<inputs, snState, fhsState, nchState, hyperedges, node_to_hyperedges, export>>

NextFHS == FhsIteration \/ FhsReturn

SpecFHS == InitFHS /\ [][NextFHS]_vars

\* The main loop of create_fhs from the state (g, hs, n2h) on, followed for
\* at most IterCap iterations.
RECURSIVE FhsLoopFrom(_, _, _, _, _)
FhsLoopFrom(g, hs, n2h, m, sd) ==
    IF ~(NumberOfEdges(g) > 0) \/ NumberOfNodes(g) = 0 \/ Len(hs) >= IterCap
    THEN <<hs, n2h>>
    ELSE LET r == FhsBody(g, hs, n2h, m, sd)
         IN FhsLoopFrom(r.G, r.hyperedges, r.node_to_hyperedges, m, sd)

\* The hyperedges and the membership index create_fhs(g_in, m) returns in a
\* process whose hash salt is sd.
create_fhs(g_in, m, sd) ==
    FhsLoopFrom(FhsEnter(g_in).G, FhsEnter(g_in).hyperedges,
                FhsEnter(g_in).node_to_hyperedges, m, sd)

\* ------------------------------------------------ properties of create_fhs
FhsDone == pc = "fhs_done"

InputEdges == EdgeSet(G_input)

\* The hyperedges (model index) that hold both ends of e.
CoLocated(e) == {i \in DOMAIN hyperedges : e \subseteq hyperedges[i]}

\* The edges of the working graph after iteration i.
After(i) == IF i < Len(before) THEN before[i + 1] ELSE EdgeSet(G)

\* The edges iteration i removed.
Removed(i) == before[i] \ After(i)

\* C1 as stated: when create_fhs has returned, every edge of the input graph
\* has both ends together in exactly one hyperedge.
C1_CoveredExactlyOnce ==
    FhsDone => \A e \in InputEdges : Cardinality(CoLocated(e)) = 1

\* C1 amended: when create_fhs has returned, every edge of the input graph
\* has both ends together in at least one hyperedge.
C1_CoveredAtLeastOnce ==
    FhsDone => \A e \in InputEdges : Cardinality(CoLocated(e)) >= 1

\* A finished run in which some edge's ends share two hyperedges.
C1_Witness ==
    /\ FhsDone
    /\ Len(hyperedges) >= 2
    /\ \E e \in InputEdges : Cardinality(CoLocated(e)) >= 2

\* C2: every iteration of the main loop leaves the working graph with fewer
\* edges than it found, and there are never more iterations than input edges.
C2_EachIterationReducesEdges ==
    /\ \A i \in DOMAIN before : Cardinality(After(i)) < Cardinality(before[i])
    /\ Len(hyperedges) <= Cardinality(InputEdges)

\* C3: an iteration removes exactly the remaining edges with both ends in
\* the hyperedge it emitted, and after a completed run every input edge was
\* removed by exactly one iteration, whose hyperedge holds both its ends.
C3_EdgeConsumption ==
    /\ Len(before) = Len(hyperedges)
    /\ \A i \in DOMAIN before :
          Removed(i) = {e \in before[i] : e \subseteq hyperedges[i]}
    /\ FhsDone =>
          \A e \in InputEdges :
              /\ Cardinality({i \in DOMAIN before : e \in Removed(i)}) = 1
              /\ \A i \in DOMAIN before : e \in Removed(i) => e \subseteq hyperedges[i]

\* A finished run of several iterations, the first of which left in place an
\* edge with one end in its hyperedge.
C3_Witness ==
    /\ FhsDone
    /\ Len(hyperedges) >= 2
    /\ \E e \in After(1) : e \cap hyperedges[1] # {}

\* C4: every hyperedge has at most m_max members, the node its iteration
\* selected among them.
C4_SizeBound ==
    \A i \in DOMAIN hyperedges :
        /\ Cardinality(hyperedges[i]) <= m_max
        /\ starts[i] \in hyperedges[i]

\* A hyperedge cut at m_max: the selected node had a neighbour left out.
C4_Witness ==
    /\ Len(hyperedges) >= 1
    /\ Cardinality(hyperedges[1]) = m_max
    /\ \E e \in before[1] : starts[1] \in e /\ ~(e \subseteq hyperedges[1])

\* C10: a second run of create_fhs on the same graph with the same m_max,
\* whatever the hash values of the nodes in its process, returns the same
\* hyperedge sequence and the same membership index as this run.
C10_Deterministic ==
    FhsDone =>
        \A sd \in 1..NumSeeds :
            create_fhs(G_input, m_max, sd) = <<hyperedges, node_to_hyperedges>>

\* ------------------------------------------------------------ nch.py
\* max(H.degree(), key=lambda x: x[1]): the first node, in H's node order,
\* whose degree no later node exceeds.
RECURSIVE MaxDeg(_, _, _)
MaxDeg(g, ns, best) ==
    IF ns = <<>> THEN best
    ELSE MaxDeg(g, Tail(ns),
                IF Degree(g, Head(ns)) > Degree(g, best) THEN Head(ns) ELSE best)

\* NchContinue with `> 1` for `> 0`.
NchContinueOffByOne(h) == NumberOfEdges(h) > 1

\* The loop condition of greedy_vertex_cover.
NchContinue(h) == NumberOfEdges(h) > 0

\* The break of greedy_vertex_cover.
NchBreak(cov, cap) == cap # None /\ Cardinality(cov) >= cap

\* Sorted in descending order.
SortedDesc(A) ==
    [i \in 1..Cardinality(A) |->
        CHOOSE x \in A : Cardinality({y \in A : y > x}) = i - 1]

\* sorted(list(cover)).
Sorted(A) ==
    [i \in 1..Cardinality(A) |->
        CHOOSE x \in A : Cardinality({y \in A : y < x}) = i - 1]

\* The for loop of create_nch over the sorted cover cs, idx the enumerate
\* index of its head.
RECURSIVE NchHyperedges(_, _, _, _, _)
NchHyperedges(g, cs, idx, hs, n2h) ==
    IF cs = <<>> THEN [hyperedges |-> hs, node_to_hyperedges |-> n2h]
    ELSE LET neighs == SeqToSet(g.adj[Head(cs)]) IN
         IF Cardinality(neighs) = 0
         THEN NchHyperedges(g, Tail(cs), idx + 1, hs, n2h)
         ELSE NchHyperedges(g, Tail(cs), idx + 1, Append(hs, neighs),
                  [v \in DOMAIN n2h \cup neighs |->
                      IF v \in neighs
                      THEN Append(IF v \in DOMAIN n2h THEN n2h[v] ELSE <<>>, idx)
                      ELSE n2h[v]])

\* One pass of the while loop of greedy_vertex_cover on H = h, cover = cov.
NchPass(h, cov) ==
    LET node == MaxDeg(h, Tail(h.nodes), Head(h.nodes))
    IN [H |-> RemoveNode(h, node), cover |-> cov \cup {node}]

\* greedy_vertex_cover from the state (h, cov) of its loop on.
RECURSIVE GreedyFrom(_, _, _)
GreedyFrom(h, cov, cap) ==
    IF ~NchContinue(h) THEN cov
    ELSE LET r == NchPass(h, cov) IN
         IF NchBreak(r.cover, cap) THEN r.cover ELSE GreedyFrom(r.H, r.cover, cap)

greedy_vertex_cover(g, cap) == GreedyFrom(Copy(g), {}, cap)

\* What create_nch returns for the cover cov of g.
NchResult(g, cov) ==
    LET r == NchHyperedges(g, Sorted(cov), 0, <<>>, <<>>)
    IN <<r.hyperedges, r.node_to_hyperedges, <<>>>>

create_nch(g, max_cover_size) == NchResult(g, greedy_vertex_cover(g, max_cover_size))

InitNCH ==
    /\ script = "create_nch"
    /\ \E t \in EdgeTables(MaxEdges) :
          /\ df = [i \in DOMAIN t |-> <<t[i][1], t[i][2], 1>>]
          /\ G_input = edges_df_to_nx(t)
    /\ edge_capacity = [e \in EdgeSet(G_input) |-> NoCap]
    /\ m_max = 1
    /\ seed = 1
    /\ use_edge_capacity = FALSE
    /\ G = EmptyGraph
    /\ hyperedges = <<>>
    /\ node_to_hyperedges = <<>>
    /\ node_caps = <<>>
    /\ pc = "nch_loop"
    /\ starts = <<>>
    /\ before = <<>>
    /\ max_nodes \in {None} \cup 0..MaxCoverCap
    /\ H = Copy(G_input)
    /\ cover = {}
    /\ NoExport
    /\ NoSupernodes

\* One pass of the while loop of greedy_vertex_cover (nch.py 19-26).
NchIteration ==
    /\ pc = "nch_loop"
    /\ NchContinue(H)
    /\ LET r == NchPass(H, cover) IN
         /\ cover' = r.cover
         /\ H' = r.H
    /\ pc' = IF NchBreak(cover', max_nodes) THEN "nch_covered" ELSE "nch_loop"
    /\ G_input' = AfterChangeOf(G_input, H')
    /\ edge_capacity' = AttrsLeft(G_input', edge_capacity)
    /\ UNCHANGED <<params, snState, fhsState, results, export>>

\* The loop exit of greedy_vertex_cover: no edge is left in H.
NchLoopExit ==
    /\ pc = "nch_loop"
    /\ ~NchContinue(H)
    /\ pc' = "nch_covered"
    /\ UNCHANGED <<inputs, snState, fhsState, nchState, results, export>>

\* create_nch after greedy_vertex_cover has returned (nch.py 37-58).
NchBuild ==
    /\ pc = "nch_covered"
    /\ LET r == NchResult(G_input, cover) IN
         /\ hyperedges' = r[1]
         /\ node_to_hyperedges' = r[2]
         /\ node_caps' = r[3]
    /\ pc' = "nch_done"
    /\ UNCHANGED <<inputs, snState, fhsState, nchState, export>>

NextNCH == NchIteration \/ NchLoopExit \/ NchBuild

SpecNCH == InitNCH /\ [][NextNCH]_vars

\* --------------------------------------------------- properties of nch.py
CoverReturned == pc \in {"nch_covered", "nch_done"}

Uncovered == {e \in InputEdges : e \cap cover = {}}

\* C5: without a size cap greedy_vertex_cover terminates (every pass adds a
\* cover node and takes at least one edge out of H, so there are at most |E|
\* passes), and the cover it returns touches every input edge.
C5_UncappedCovers ==
    max_nodes = None =>
        /\ Cardinality(cover) + NumberOfEdges(H) <= Cardinality(InputEdges)
        /\ CoverReturned => Uncovered = {}

\* An uncapped run that needed several cover nodes has returned.
C5_Witness ==
    /\ max_nodes = None
    /\ pc = "nch_done"
    /\ Cardinality(cover) >= 2

\* The rows of the edge table that have an end in the cover: the part of
\* the input the returned cover does cover.
CoveredRows == SelectSeq(df, LAMBDA r : {r[1], r[2]} \cap cover # {})

\* C6: when the cap stopped the selection with edges still uncovered, what
\* create_nch returns tells its caller so: it is not what a complete run
\* returns (here the run, without cap, on the covered part of the input).
C6_PartialCoverSurfaced ==
    (pc = "nch_done" /\ max_nodes # None /\ Uncovered # {})
        => <<hyperedges, node_to_hyperedges, node_caps>>
               # create_nch(edges_df_to_nx(CoveredRows), None)

\* C15: the node a pass of greedy_vertex_cover adds to the cover has maximum
\* degree in the working graph H, and of the nodes of maximum degree it has
\* the lowest identifier, whatever the order of the rows that built the graph.
C15_LowestIdAmongMaxDegree ==
    [][\A n \in cover' \ cover :
          /\ \A m \in NodeSet(H) : Degree(H, m) <= Degree(H, n)
          /\ \A m \in NodeSet(H) : Degree(H, m) = Degree(H, n) => n <= m]_vars

\* C16: with a cap c >= 0 the cover greedy_vertex_cover returns has at most
\* c nodes.
C16_CoverWithinCap ==
    (CoverReturned /\ max_nodes # None) => Cardinality(cover) <= max_nodes

\* The neighbours of c in the input graph, c itself left out.
InputNeighbours(c) == {v \in Nodes \ {c} : {c, v} \in InputEdges}

\* C17: create_nch returns one hyperedge per cover node that has a neighbour,
\* in ascending order of the cover nodes; the hyperedge of cover node c is
\* the set of c's neighbours in the input graph, without c; the capacity
\* allocation returned is empty.
C17_NchHyperedges ==
    pc = "nch_done" =>
        LET cs == SelectSeq(Sorted(cover), LAMBDA c : InputNeighbours(c) # {}) IN
        /\ Len(hyperedges) = Len(cs)
        /\ \A i \in DOMAIN cs :
              /\ hyperedges[i] = InputNeighbours(cs[i])
              /\ cs[i] \notin hyperedges[i]
              /\ i > 1 => cs[i - 1] < cs[i]
        /\ node_caps = <<>>

\* create_nch has returned two hyperedges of different cover nodes, the
\* second holding a cover node, which the working copy had lost by then.
C17_Witness ==
    /\ pc = "nch_done"
    /\ Len(hyperedges) >= 2
    /\ hyperedges[1] # hyperedges[2]
    /\ hyperedges[2] \cap cover # {}

\* ------------------------------ make_fhs_edges.py, make_nch_edges.py: main
\* 'capacity' in df.columns: a table without the column has NoCap in its rows.
HasCapacityColumn(rows) == \E i \in DOMAIN rows : rows[i][3] # NoCap

\* compute_node_totals crediting a row's capacity to its src only.
RECURSIVE NodeTotalsSrcOnly(_, _)
NodeTotalsSrcOnly(rows, totals) ==
    IF rows = <<>> THEN totals
    ELSE LET u == Head(rows)[1]
             cap == Head(rows)[3]
             t1 == [n \in DOMAIN totals \cup {u} |->
                      (IF n \in DOMAIN totals THEN totals[n] ELSE 0)
                      + (IF n = u THEN cap ELSE 0)]
         IN NodeTotalsSrcOnly(Tail(rows), t1)

\* compute_node_totals: the loop over the rows, totals the defaultdict(float);
\* a row credits its capacity to its src, then to its trg.
RECURSIVE NodeTotals(_, _)
NodeTotals(rows, totals) ==
    IF rows = <<>> THEN totals
    ELSE LET u == Head(rows)[1]
             v == Head(rows)[2]
             cap == Head(rows)[3]
             t1 == [n \in DOMAIN totals \cup {u} |->
                      (IF n \in DOMAIN totals THEN totals[n] ELSE 0)
                      + (IF n = u THEN cap ELSE 0)]
             t2 == [n \in DOMAIN t1 \cup {v} |->
                      (IF n \in DOMAIN t1 THEN t1[n] ELSE 0)
                      + (IF n = v THEN cap ELSE 0)]
         IN NodeTotals(Tail(rows), t2)

compute_node_totals(rows) == NodeTotals(rows, <<>>)

\* node_totals.get(node, 0.0).
GetTotal(totals, node) == IF node \in DOMAIN totals THEN totals[node] ELSE 0

\* make_fhs_edges.main 137-148: the split of the node totals, a total <= 0
\* replaced by 1.0.
FhsScriptCaps(rows, n2h) ==
    LET node_totals == compute_node_totals(rows) IN
    [key \in CapKeys(n2h) |->
        LET total == GetTotal(node_totals, key[1])
        IN Quot(IF total <= 0 THEN 1 ELSE total, Len(n2h[key[1]]))]

\* make_nch_edges.main 92-99: the split of the node totals, a total that is
\* falsy (0.0) replaced by 1.0.
NchScriptCaps(rows, n2h) ==
    LET node_totals == compute_node_totals(rows) IN
    [key \in CapKeys(n2h) |->
        LET total == GetTotal(node_totals, key[1])
        IN Quot(IF total = 0 THEN 1 ELSE total, Len(n2h[key[1]]))]

\* The capacity of row i of a table under capacity pattern p.
CapOfRow(i, p) == (i * p) % (MaxCap + 1)

\* The largest edge table fed to the scripts.
ScriptEdges == MaxEdges - 1

\* The edge tables in their first layout.
PlainTables == {Layout(es, 0) : es \in EdgeSets(ScriptEdges)}

\* The runs that end in a capacity allocation: make_fhs_edges.py and
\* make_nch_edges.py on a table with or without a capacity column, and the
\* main of fhs.py, which calls create_fhs(use_edge_capacity=True) on a graph
\* whose edges carry the capacities. The hyperedge size limit starts at 2: with
\* a limit of 1 create_fhs never reaches its capacity tail (see SpecFHS).
Init ==
    /\ script \in {"make_fhs_edges", "make_nch_edges", "fhs_main"}
    /\ \E t \in PlainTables :
          /\ \/ \E p \in 0..MaxCap :
                   df = [i \in DOMAIN t |-> <<t[i][1], t[i][2], CapOfRow(i, p)>>]
             \/ df = [i \in DOMAIN t |-> <<t[i][1], t[i][2], NoCap>>]
          /\ G_input = edges_df_to_nx(t)
    /\ edge_capacity =
          [e \in EdgeSet(G_input) |->
              IF script = "fhs_main"
              THEN LET i == CHOOSE j \in DOMAIN df : {df[j][1], df[j][2]} = e
                   IN df[i][3]
              ELSE NoCap]
    /\ m_max \in IF script = "make_nch_edges" THEN {1} ELSE 2..MaxM
    /\ seed \in 1..NumSeeds
    /\ use_edge_capacity \in IF script = "make_nch_edges" THEN BOOLEAN
                              ELSE {script = "fhs_main"}
    /\ max_nodes = None
    /\ hyperedges = <<>>
    /\ node_caps = <<>>
    /\ starts = <<>>
    /\ before = <<>>
    /\ cover = {}
    /\ NoExport
    /\ NoSupernodes
    /\ IF script = "make_nch_edges"
       THEN /\ pc = "nch_loop"
            /\ H = Copy(G_input)
            /\ G = EmptyGraph
            /\ node_to_hyperedges = <<>>
       ELSE /\ pc = "fhs_loop"
            /\ H = EmptyGraph
            /\ G = FhsEnter(G_input).G
            /\ node_to_hyperedges = FhsEnter(G_input).node_to_hyperedges

\* make_fhs_edges.main 131-150 (its --use_edge_capacity is always on).
FhsRedistribute ==
    /\ pc = "fhs_done"
    /\ script = "make_fhs_edges"
    /\ IF HasCapacityColumn(df)
       THEN /\ node_caps' = FhsScriptCaps(df, node_to_hyperedges)
            /\ pc' = "caps_done"
       ELSE /\ node_caps' = node_caps
            /\ pc' = "caps_skipped"
    /\ UNCHANGED <<inputs, snState, fhsState, nchState, hyperedges, node_to_hyperedges, export>>

\* make_nch_edges.main 91-101.
NchRedistribute ==
    /\ pc = "nch_done"
    /\ script = "make_nch_edges"
    /\ IF use_edge_capacity /\ HasCapacityColumn(df)
       THEN /\ node_caps' = NchScriptCaps(df, node_to_hyperedges)
            /\ pc' = "caps_done"
       ELSE /\ node_caps' = node_caps
            /\ pc' = "caps_skipped"
    /\ UNCHANGED <<inputs, snState, fhsState, nchState, hyperedges, node_to_hyperedges, export>>

\* ------------------------------------------------------- clique export
BaseFee == 100
FeeRate == 1

\* `for u in hed`: the iteration order of a set follows the hashes of its
\* members; the same set object is iterated in the same order every time.
IterOrder(A, sd) ==
    [i \in 1..Cardinality(A) |->
        CHOOSE x \in A :
            Cardinality({y \in A : \/ Hash(y, sd) < Hash(x, sd)
                                   \/ Hash(y, sd) = Hash(x, sd) /\ y < x}) = i - 1]

\* node_caps.get((u, idx), 1.0), as a fraction.
CapOf(caps, u, idx) == IF <<u, idx>> \in DOMAIN caps THEN caps[<<u, idx>>] ELSE <<1, 1>>

\* One directed record; hed_idx is not written out: it keeps the Python
\* index of the hyperedge the record comes from.
Record(u, v, cap, idx) ==
    [src |-> u, trg |-> v, capacity |-> cap, base_fee |-> BaseFee,
     fee_rate |-> FeeRate, enabled |-> TRUE, hed_idx |-> idx]

\* InnerRows without `if u == v: continue`.
RECURSIVE InnerRowsWithSelf(_, _, _, _)
InnerRowsWithSelf(u, cap, vs, idx) ==
    IF vs = <<>> THEN <<>>
    ELSE <<Record(u, Head(vs), cap, idx)>> \o InnerRowsWithSelf(u, cap, Tail(vs), idx)

\* `for v in hed`: the records of source u.
RECURSIVE InnerRows(_, _, _, _)
InnerRows(u, cap, vs, idx) ==
    IF vs = <<>> THEN <<>>
    ELSE (IF Head(vs) = u THEN <<>> ELSE <<Record(u, Head(vs), cap, idx)>>)
         \o InnerRows(u, cap, Tail(vs), idx)

\* `for u in hed`: the records of one hyperedge, ord its iteration order.
RECURSIVE OuterRows(_, _, _, _)
OuterRows(us, ord, idx, caps) ==
    IF us = <<>> THEN <<>>
    ELSE InnerRows(Head(us), CapOf(caps, Head(us), idx), ord, idx)
         \o OuterRows(Tail(us), ord, idx, caps)

\* `for idx, hed in enumerate(hyperedges)`, idx the index of the head of hs.
RECURSIVE CliqueRows(_, _, _, _)
CliqueRows(hs, idx, caps, sd) ==
    IF hs = <<>> THEN <<>>
    ELSE OuterRows(IterOrder(Head(hs), sd), IterOrder(Head(hs), sd), idx, caps)
         \o CliqueRows(Tail(hs), idx + 1, caps, sd)

\* max(sizes) with min for max.
MinSize(hs) ==
    IF hs = <<>> THEN 0
    ELSE CHOOSE m \in {Cardinality(hs[i]) : i \in DOMAIN hs} :
             \A i \in DOMAIN hs : Cardinality(hs[i]) >= m

\* max(sizes), 0 for no hyperedge.
MaxSize(hs) ==
    IF hs = <<>> THEN 0
    ELSE CHOOSE m \in {Cardinality(hs[i]) : i \in DOMAIN hs} :
             \A i \in DOMAIN hs : Cardinality(hs[i]) <= m

\* make_fhs_edges.export_clique_edges_csv.
export_clique_edges_csv(hs, caps, warn_threshold, sd) ==
    IF hs # <<>> /\ MaxSize(hs) > warn_threshold
    THEN [error |-> "RuntimeError", rows |-> <<>>]
    ELSE [error |-> "", rows |-> CliqueRows(hs, 0, caps, sd)]

\* make_nch_edges.export_clique (no fee column in the table: base_fee 100.0).
export_clique(hs, caps, T, sd) ==
    IF hs # <<>> /\ MaxSize(hs) > T
    THEN [error |-> "RuntimeError", rows |-> <<>>]
    ELSE [error |-> "", rows |-> CliqueRows(hs, 0, caps, sd)]

\* Line 9 of hyper_to_edges.py as a table: the members u of the hyperedge of
\* index idx for which node_capacity_map.get((u, idx), node_capacity_map.get(u,
\* 1.0)) finds a key, the key (u, idx) first and the key u (here <<u>>) second.
NodeCapacityLookup(hs, caps) ==
    LET found == {k \in Nodes \X (0..(Len(hs) - 1)) :
                     /\ k[1] \in HedAt(hs, k[2])
                     /\ (k \in DOMAIN caps \/ <<k[1]>> \in DOMAIN caps)}
    IN [k \in found |-> IF k \in DOMAIN caps THEN caps[k] ELSE caps[<<k[1]>>]]

\* hyper_to_edges.hyperedges_to_directed_edges_df: no threshold.
hyperedges_to_directed_edges_df(hs, caps, sd) ==
    CliqueRows(hs, 0, NodeCapacityLookup(hs, caps), sd)

\* The text f"{n}" of node id n, then the `node` that k.split("|") gives
\* back. A string id (without "|") comes back as itself; the text of an
\* integer id is a string, a value that is no integer id: it is modelled as
\* a number outside Nodes.
NodeText(n, sd) == IF sd = 1 THEN n + NumNodes ELSE n

\* export_hyperjson writes the keys (n, i) as "n|i"; hyper_to_edges.py 23-27
\* reads them back as (node, int(idx)).
ParsedNodeCaps(caps, sd) ==
    [k \in {<<NodeText(c[1], sd), c[2]>> : c \in DOMAIN caps} |->
        LET c == CHOOSE c \in DOMAIN caps : <<NodeText(c[1], sd), c[2]>> = k
        IN caps[c]]

HyperjsonWritten == pc \in {"caps_done", "caps_skipped"}

\* make_fhs_edges.main 169-175 with --to_clique: its own size check, then
\* export_clique_edges_csv.
FhsExportClique ==
    /\ HyperjsonWritten
    /\ script = "make_fhs_edges"
    /\ \E T \in 1..MaxCliqueSize :
          /\ max_clique_size' = T
          /\ IF MaxSize(hyperedges) > T
             THEN /\ error' = "SystemExit"
                  /\ rows_out' = <<>>
             ELSE LET r == export_clique_edges_csv(hyperedges, node_caps, T, seed) IN
                  /\ error' = r.error
                  /\ rows_out' = r.rows
    /\ exporter' = "export_clique_edges_csv"
    /\ pc' = IF error' = "" THEN "exported" ELSE "export_failed"
    /\ UNCHANGED <<inputs, snState, fhsState, nchState, results>>

\* make_nch_edges.main 109-128 with --to_clique.
NchExportClique ==
    /\ HyperjsonWritten
    /\ script = "make_nch_edges"
    /\ \E T \in 1..MaxCliqueSize :
          /\ max_clique_size' = T
          /\ LET r == export_clique(hyperedges, node_caps, T, seed) IN
               /\ error' = r.error
               /\ rows_out' = r.rows
    /\ exporter' = "export_clique"
    /\ pc' = IF error' = "" THEN "exported" ELSE "export_failed"
    /\ UNCHANGED <<inputs, snState, fhsState, nchState, results>>

\* hyper_to_edges.py on the hyperjson file a script wrote: the members of a
\* hyperedge come back from JSON as they were, the keys of node_caps through
\* the text "node|idx". The sets are rebuilt in a process of its own, whose
\* string hashing (rsd) need not be that of the writer.
HyperToEdges ==
    /\ HyperjsonWritten
    /\ max_clique_size' = None
    /\ error' = ""
    /\ \E rsd \in IF seed = 1 THEN {1} ELSE 2..NumSeeds :
          rows_out' = hyperedges_to_directed_edges_df(
                          hyperedges, ParsedNodeCaps(node_caps, seed), rsd)
    /\ exporter' = "hyperedges_to_directed_edges_df"
    /\ pc' = "exported"
    /\ UNCHANGED <<inputs, snState, fhsState, nchState, results>>

Next ==
    \/ FhsIteration
    \/ FhsReturn
    \/ NchIteration
    \/ NchLoopExit
    \/ NchBuild
    \/ FhsRedistribute
    \/ NchRedistribute
    \/ FhsExportClique
    \/ NchExportClique
    \/ HyperToEdges

Spec == Init /\ [][Next]_vars

\* ------------------------------------------------------- supernodes.py
\* select_supernodes(G, max_search_depth=4, max_states=5000).
DefaultSearchDepth == 4
DefaultMaxStates == 5000

\* id_map of select_supernodes: int(n) for a node that is an integer, the
\* insertion index for a node int() rejects (a public key). Seed 1 stands for
\* integer nodes, the other seeds for string nodes.
id_map(g, sd) ==
    [n \in NodeSet(g) |->
        IF sd = 1 THEN n
        ELSE (CHOOSE i \in DOMAIN g.nodes : g.nodes[i] = n) - 1]

\* neigh = {n: set(G.neighbors(n)) for n in G.nodes()}.
neigh(g) == [n \in NodeSet(g) |-> SeqToSet(g.adj[n])]

\* two_hop_nodes(n): the breadth-first search expands n and its neighbours.
two_hop_nodes(g, n) ==
    {n} \cup neigh(g)[n] \cup UNION {neigh(g)[x] : x \in neigh(g)[n]}

\* BudgetExceeded with `>=` for `>`: the search gives up one state early.
BudgetOffByOne(states_explored, max_states_local) ==
    states_explored >= max_states_local

\* BudgetExceeded without the budget: the search never gives up.
BudgetNever(states_explored, max_states_local) == FALSE

\* `if states_explored > max_states_local` of exists_monotone_path.
BudgetExceeded(states_explored, max_states_local) ==
    states_explored > max_states_local

\* DepthReached with `>` for `>=`.
DepthReachedLate(depth, max_depth) == depth > max_depth

\* `if depth >= max_depth` of exists_monotone_path.
DepthReached(depth, max_depth) == depth >= max_depth

\* `for nb in neigh[cur]` of exists_monotone_path, nbs the neighbours still to
\* look at, prev the rank of cur when cur is an internal node.
RECURSIVE EmpScan(_, _, _, _, _, _, _, _, _)
EmpScan(g, nbs, v, Vn_set, prev, depth, q, seen_states, sd) ==
    IF nbs = <<>> THEN [found |-> FALSE, q |-> q, seen_states |-> seen_states]
    ELSE LET nb == Head(nbs)
             nb_id == id_map(g, sd)[nb]
             new_state == <<nb, nb_id>>
         IN IF nb \notin Vn_set
            THEN EmpScan(g, Tail(nbs), v, Vn_set, prev, depth, q, seen_states, sd)
            ELSE IF nb = v
            THEN [found |-> TRUE, q |-> q, seen_states |-> seen_states]
            ELSE IF prev # None /\ ~(prev > nb_id)
            THEN EmpScan(g, Tail(nbs), v, Vn_set, prev, depth, q, seen_states, sd)
            ELSE IF new_state \in seen_states
            THEN EmpScan(g, Tail(nbs), v, Vn_set, prev, depth, q, seen_states, sd)
            ELSE EmpScan(g, Tail(nbs), v, Vn_set, prev, depth,
                         Append(q, <<nb, nb_id, depth + 1>>),
                         seen_states \cup {new_state}, sd)

\* `while q` of exists_monotone_path; the result carries the number of
\* states dequeued.
RECURSIVE EmpLoop(_, _, _, _, _, _, _, _, _)
EmpLoop(g, v, Vn_set, max_depth, max_states_local, q, seen_states, states_explored, sd) ==
    IF q = <<>> THEN [found |-> FALSE, dequeued |-> states_explored]
    ELSE LET cur == Head(q)[1]
             prev_internal_id == Head(q)[2]
             depth == Head(q)[3]
             explored == states_explored + 1
         IN IF BudgetExceeded(explored, max_states_local)
            THEN [found |-> FALSE, dequeued |-> explored]
            ELSE IF DepthReached(depth, max_depth)
            THEN EmpLoop(g, v, Vn_set, max_depth, max_states_local, Tail(q),
                         seen_states, explored, sd)
            ELSE LET r == EmpScan(g, IterOrder(neigh(g)[cur], sd), v, Vn_set,
                                  prev_internal_id, depth, Tail(q), seen_states, sd)
                 IN IF r.found THEN [found |-> TRUE, dequeued |-> explored]
                    ELSE EmpLoop(g, v, Vn_set, max_depth, max_states_local, r.q,
                                 r.seen_states, explored, sd)

exists_monotone_path(g, u, v, Vn_set, max_depth, max_states_local, sd) ==
    IF u = v THEN [found |-> TRUE, dequeued |-> 0]
    ELSE IF u \notin Vn_set \/ v \notin Vn_set THEN [found |-> FALSE, dequeued |-> 0]
    ELSE EmpLoop(g, v, Vn_set, max_depth, max_states_local,
                 <<<<u, None, 0>>>>, {}, 0, sd)

\* The pairs (NGn_list[i], NGn_list[j]), i < j, in the order of the two for
\* loops of select_supernodes.
RECURSIVE PairList(_)
PairList(l) ==
    IF Len(l) < 2 THEN <<>>
    ELSE [k \in 1..(Len(l) - 1) |-> <<l[1], l[k + 1]>>] \o PairList(Tail(l))

\* The two for loops of select_supernodes for node n over the pairs prs; calls
\* collects the searches made: [n, u, v, found, dequeued].
RECURSIVE SnPairs(_, _, _, _, _, _, _, _)
SnPairs(g, n, prs, Vn_set, max_depth, max_st, sd, calls) ==
    IF prs = <<>> THEN [removed |-> FALSE, calls |-> calls]
    ELSE LET u == Head(prs)[1]
             v == Head(prs)[2]
         IN IF v \in neigh(g)[u] THEN [removed |-> TRUE, calls |-> calls]
            ELSE IF u \notin Vn_set \/ v \notin Vn_set
            THEN SnPairs(g, n, Tail(prs), Vn_set, max_depth, max_st, sd, calls)
            ELSE LET r == exists_monotone_path(g, u, v, Vn_set, max_depth, max_st, sd)
                     c2 == calls \cup {[n |-> n, u |-> u, v |-> v, found |-> r.found,
                                        dequeued |-> r.dequeued]}
                 IN IF r.found THEN [removed |-> TRUE, calls |-> c2]
                    ELSE SnPairs(g, n, Tail(prs), Vn_set, max_depth, max_st, sd, c2)

\* The body of `for n in list(G.nodes())` of select_supernodes.
SnBody(g, n, max_depth, max_st, sd) ==
    SnPairs(g, n, PairList(IterOrder(neigh(g)[n], sd)), two_hop_nodes(g, n),
            max_depth, max_st, sd, {})

\* ------------------------------------------------------------ utils.py
\* create_lnrollup_hyperedges with an empty capacity allocation.
RollupNoCaps(g) ==
    <<<<NodeSet(g)>>, [n \in NodeSet(g) |-> <<0>>], <<>>>>

\* create_lnrollup_hyperedges(G).
create_lnrollup_hyperedges(g) ==
    <<<<NodeSet(g)>>,
      [n \in NodeSet(g) |-> <<0>>],
      [key \in {<<n, 0>> : n \in NodeSet(g)} |-> Quot(1, 1)]>>

\* `for i, s in enumerate(S)` of create_supernode_hyperedges, ss the part of
\* the iteration still to come and i the enumerate index of its head.
RECURSIVE SnHyperedges(_, _, _, _, _)
SnHyperedges(g, ss, i, hs, n2h) ==
    IF ss = <<>> THEN [hyperedges |-> hs, node_to_hyperedges |-> n2h]
    ELSE LET neighbors == neigh(g)[Head(ss)] IN
         IF neighbors = {}
         THEN SnHyperedges(g, Tail(ss), i + 1, hs, n2h)
         ELSE SnHyperedges(g, Tail(ss), i + 1, Append(hs, neighbors),
                  [v \in DOMAIN n2h |->
                      IF v \in neighbors THEN Append(n2h[v], i) ELSE n2h[v]])

\* create_supernode_hyperedges after select_supernodes has returned sn, in a
\* process whose hash salt is sd.
create_supernode_hyperedges(g, sn, sd) ==
    LET r == SnHyperedges(g, IterOrder(sn, sd), 0, <<>>, [n \in NodeSet(g) |-> <<>>])
        n2h == r.node_to_hyperedges
    IN <<r.hyperedges, n2h, [key \in CapKeys(n2h) |-> Quot(1, Len(n2h[key[1]]))]>>

\* Graph.add_node(n).
AddNode(g, n) ==
    IF HasNode(g, n) THEN g
    ELSE [id |-> g.id, nodes |-> Append(g.nodes, n), adj |-> g.adj]

\* The nodes a caller may add to the graph without an edge.
MaxIsolated == 1

\* The longest search depth and the largest state budget select_supernodes
\* is called with.
MaxDepth == 2
MaxStates == 3

\* Edge tables with a row (u, u).
LoopTables ==
    {Append(Layout(es, 0), <<u, u>>) : es \in EdgeSets(1), u \in Nodes}

\* The edge tables the builders of utils.py are run on: the first half of
\* the layouts, and the tables with a row (u, u).
UtilsTables ==
    {Layout(es, L) : es \in EdgeSets(ScriptEdges), L \in 0..((NumLayouts \div 2) - 1)}
        \cup LoopTables

\* A caller of utils.py: it loads an edge table, builds the graph and calls
\* the rollup builder, the supernode builder (which calls select_supernodes
\* with its defaults) or select_supernodes itself.
InitUtils ==
    /\ script \in {"create_lnrollup_hyperedges", "create_supernode_hyperedges",
                   "select_supernodes"}
    /\ \E t \in UtilsTables : df = [i \in DOMAIN t |-> <<t[i][1], t[i][2], 1>>]
    /\ G_input = EmptyGraph
    /\ edge_capacity = <<>>
    /\ m_max = 1
    /\ seed \in 1..NumSeeds
    /\ use_edge_capacity = FALSE
    /\ max_nodes = None
    /\ IF script = "select_supernodes"
       THEN /\ max_search_depth \in 0..MaxDepth
            /\ max_states \in 0..MaxStates
       ELSE /\ max_search_depth = DefaultSearchDepth
            /\ max_states = DefaultMaxStates
    /\ S = {}
    /\ todo = <<>>
    /\ searches = {}
    /\ G = EmptyGraph
    /\ hyperedges = <<>>
    /\ node_to_hyperedges = <<>>
    /\ node_caps = <<>>
    /\ pc = "load"
    /\ starts = <<>>
    /\ before = <<>>
    /\ H = EmptyGraph
    /\ cover = {}
    /\ NoExport

\* G = edges_df_to_nx(edges_df): every row is added, a row (u, u) too.
BuildGraph ==
    /\ pc = "load"
    /\ G_input' = edges_df_to_nx(df)
    /\ edge_capacity' = [e \in EdgeSet(G_input') |-> NoCap]
    /\ pc' = "built"
    /\ UNCHANGED <<script, df, m_max, seed, use_edge_capacity, max_nodes,
                   max_search_depth, max_states, snState, fhsState, nchState,
                   results, export>>

\* The caller adds a node without an edge to the graph it hands to a builder.
CallerAddsNode ==
    /\ pc = "built"
    /\ Cardinality({n \in NodeSet(G_input) : G_input.adj[n] = <<>>}) < MaxIsolated
    /\ \E n \in Nodes \ NodeSet(G_input) : G_input' = AddNode(G_input, n)
    /\ UNCHANGED <<script, df, edge_capacity, m_max, seed, use_edge_capacity,
                   max_nodes, max_search_depth, max_states, snState, fhsState,
                   nchState, results, pc, export>>

\* create_lnrollup_hyperedges(G) (utils.py 12-14).
Rollup ==
    /\ pc = "built"
    /\ script = "create_lnrollup_hyperedges"
    /\ LET r == create_lnrollup_hyperedges(G_input) IN
         /\ hyperedges' = r[1]
         /\ node_to_hyperedges' = r[2]
         /\ node_caps' = r[3]
    /\ pc' = "rollup_done"
    /\ UNCHANGED <<inputs, snState, fhsState, nchState, export>>

\* select_supernodes up to its main loop (supernodes.py 16-27).
SnStart ==
    /\ pc = "built"
    /\ script \in {"create_supernode_hyperedges", "select_supernodes"}
    /\ S' = NodeSet(G_input)
    /\ todo' = G_input.nodes
    /\ pc' = "sn_loop"
    /\ UNCHANGED <<inputs, searches, fhsState, nchState, results, export>>

\* One pass of `for n in list(G.nodes())` (supernodes.py 118-146).
SnVisit ==
    /\ pc = "sn_loop"
    /\ todo # <<>>
    /\ LET r == SnBody(G_input, Head(todo), max_search_depth, max_states, seed) IN
         /\ S' = IF r.removed THEN S \ {Head(todo)} ELSE S
         /\ searches' = searches \cup r.calls
    /\ todo' = Tail(todo)
    /\ UNCHANGED <<inputs, fhsState, nchState, results, pc, export>>

\* `return S` of select_supernodes.
SnReturn ==
    /\ pc = "sn_loop"
    /\ todo = <<>>
    /\ pc' = "sn_selected"
    /\ UNCHANGED <<inputs, snState, fhsState, nchState, results, export>>

\* create_supernode_hyperedges after its call of select_supernodes
\* (utils.py 18-33).
SnBuild ==
    /\ pc = "sn_selected"
    /\ script = "create_supernode_hyperedges"
    /\ LET r == create_supernode_hyperedges(G_input, S, seed) IN
         /\ hyperedges' = r[1]
         /\ node_to_hyperedges' = r[2]
         /\ node_caps' = r[3]
    /\ pc' = "sn_done"
    /\ UNCHANGED <<inputs, snState, fhsState, nchState, export>>

NextUtils ==
    \/ BuildGraph
    \/ CallerAddsNode
    \/ Rollup
    \/ SnStart
    \/ SnVisit
    \/ SnReturn
    \/ SnBuild

SpecUtils == InitUtils /\ [][NextUtils]_vars

\* -------------------------------------- properties of the capacity split
\* A capacity allocation has been computed from the capacities of the input.
Redistributed ==
    \/ pc = "caps_done"
    \/ /\ pc = "fhs_done"
       /\ script = "fhs_main"
       /\ \E e \in InputEdges : edge_capacity[e] # NoCap

\* The total capacity of the rows of the edge table incident to n.
IncidentTotal(n) ==
    LET rs == {i \in DOMAIN df : n \in {df[i][1], df[i][2]} /\ df[i][3] # NoCap}
    IN SumOver(rs, [i \in DOMAIN df |-> df[i][3]])

\* The Python indices of the hyperedges n belongs to.
MemberOf(n) == {i - 1 : i \in {j \in DOMAIN hyperedges : n \in hyperedges[j]}}

\* The sum of fractions <<a, b>> over the keys ks of an allocation.
RECURSIVE FracSum(_, _)
FracSum(ks, caps) ==
    IF ks = {} THEN <<0, 1>>
    ELSE LET k == CHOOSE x \in ks : TRUE
             rest == FracSum(ks \ {k}, caps)
         IN <<caps[k][1] * rest[2] + rest[1] * caps[k][2], caps[k][2] * rest[2]>>

FracEq(x, y) == x[1] * y[2] = y[1] * x[2]

\* C7: after the redistribution a node that belongs to k >= 1 hyperedges and
\* has incident capacity T > 0 has one allocation per hyperedge it belongs
\* to and no other, each T / k, and they sum to T.
C7_CapacityConserved ==
    Redistributed =>
        \A n \in Nodes :
            LET k == Cardinality(MemberOf(n))
                T == IncidentTotal(n)
                keys == {key \in DOMAIN node_caps : key[1] = n}
            IN (k >= 1 /\ T > 0) =>
                /\ keys = {<<n, i>> : i \in MemberOf(n)}
                /\ \A key \in keys : FracEq(node_caps[key], <<T, k>>)
                /\ FracEq(FracSum(keys, node_caps), <<T, 1>>)

\* A node in two hyperedges, with incident capacity T > 0 that 2 does not
\* divide, after the redistribution.
C7_Witness ==
    /\ Redistributed
    /\ \E n \in Nodes :
          /\ Cardinality(MemberOf(n)) = 2
          /\ IncidentTotal(n) % 2 = 1

\* C20: after the redistribution every allocation is strictly positive, and
\* a node of k >= 1 hyperedges with incident capacity <= 0 has 1.0 / k in
\* each of them.
C20_CapacityFloor ==
    Redistributed =>
        \A key \in DOMAIN node_caps :
            /\ node_caps[key][1] > 0
            /\ node_caps[key][2] > 0
            /\ IncidentTotal(key[1]) <= 0 =>
                  FracEq(node_caps[key], <<1, Cardinality(MemberOf(key[1]))>>)

RowsFrom(idx) == SelectSeq(rows_out, LAMBDA r : r.hed_idx = idx)

\* C9: a successful export gives a hyperedge of k members exactly k*(k-1)
\* records, one for each ordered pair of distinct members.
C9_CliqueCount ==
    (exporter # "" /\ error = "") =>
        \A i \in DOMAIN hyperedges :
            LET rs == RowsFrom(i - 1)
                k == Cardinality(hyperedges[i])
            IN /\ Len(rs) = k * (k - 1)
               /\ {<<rs[j].src, rs[j].trg>> : j \in DOMAIN rs}
                      = {p \in hyperedges[i] \X hyperedges[i] : p[1] # p[2]}

\* A successful export of a hyperedge of three members.
C9_Witness ==
    /\ exporter # ""
    /\ error = ""
    /\ \E i \in DOMAIN hyperedges :
          Cardinality(hyperedges[i]) = 3 /\ Len(RowsFrom(i - 1)) = 6

\* The records carry the capacity node_caps allocates to (source, index of
\* their hyperedge), 1.0 where it has no such entry, and come in the order of
\* the hyperedge indices.
RecordsFollowAllocation ==
    /\ \A j \in DOMAIN rows_out :
          FracEq(rows_out[j].capacity,
                 CapOf(node_caps, rows_out[j].src, rows_out[j].hed_idx))
    /\ \A j, k \in DOMAIN rows_out :
          j < k => rows_out[j].hed_idx <= rows_out[k].hed_idx

\* C22: every directed record emitted for hyperedge index i with source u
\* carries the capacity allocated to (u, i) (1.0 when the allocation has no
\* entry for (u, i)), and all records of hyperedge i precede all records of
\* hyperedge i + 1.
C22_RecordCapacityAndOrder ==
    (exporter # "" /\ error = "") => RecordsFollowAllocation

\* The same for the two exporters that run inside the script that computed
\* the allocation.
InProcessRecordsFollowAllocation ==
    (exporter \in {"export_clique_edges_csv", "export_clique"} /\ error = "")
        => RecordsFollowAllocation

\* ------------------------------------------- properties of the builders
\* A builder has returned its (hyperedges, membership, capacities).
BuilderReturned == pc \in {"fhs_done", "nch_done", "rollup_done", "sn_done"}

\* C11: in what a builder returns, index i is in the list of node v exactly
\* when i is a position of the hyperedge sequence and v is a member of the
\* hyperedge at i, and no list holds an index twice.
C11_MembershipConsistent ==
    BuilderReturned =>
        /\ \A v \in DOMAIN node_to_hyperedges :
              \A j \in DOMAIN node_to_hyperedges[v] :
                  LET i == node_to_hyperedges[v][j] IN
                  /\ i \in 0..(Len(hyperedges) - 1)
                  /\ v \in HedAt(hyperedges, i)
                  /\ \A k \in DOMAIN node_to_hyperedges[v] :
                        node_to_hyperedges[v][k] = i => k = j
        /\ \A i \in DOMAIN hyperedges :
              \A v \in hyperedges[i] :
                  /\ v \in DOMAIN node_to_hyperedges
                  /\ SeqContains(node_to_hyperedges[v], i - 1)

\* C12: a table with a row (u, u) does not build a graph, the attempt fails
\* with InvalidEdge; no graph that was built has a self-loop.
C12_SelfLoopRejected ==
    pc # "load" =>
        /\ (\E i \in DOMAIN df : df[i][1] = df[i][2]) => error = "InvalidEdge"
        /\ \A n \in NodeSet(G_input) : ~SeqContains(G_input.adj[n], n)

\* C13: the rollup builder returns one hyperedge, the node set of the graph;
\* the membership list of every node is [0]; the capacity allocation has the
\* keys (n, 0), n a node of the graph, each with 1.0.
C13_Rollup ==
    pc = "rollup_done" =>
        /\ Len(hyperedges) = 1
        /\ hyperedges[1] = NodeSet(G_input)
        /\ DOMAIN node_to_hyperedges = NodeSet(G_input)
        /\ \A n \in NodeSet(G_input) : node_to_hyperedges[n] = <<0>>
        /\ DOMAIN node_caps = {<<n, 0>> : n \in NodeSet(G_input)}
        /\ \A key \in DOMAIN node_caps : FracEq(node_caps[key], <<1, 1>>)

\* The rollup of a graph of at least three nodes, one of them without an edge.
C13_Witness ==
    /\ pc = "rollup_done"
    /\ NumberOfNodes(G_input) >= 3
    /\ \E n \in NodeSet(G_input) : G_input.adj[n] = <<>>

\* C14: every hyperedge a builder returns has at least one member.
C14_NonEmptyHyperedges ==
    BuilderReturned => \A i \in DOMAIN hyperedges : hyperedges[i] # {}

\* ---------------------------------- properties of select_supernodes
SnReturned == pc \in {"sn_selected", "sn_done"}

\* The neighbours of x in the input graph: the y with {x, y} an input edge.
Adj(x) == SeqToSet(G_input.adj[x])

\* The nodes at distance at most 2 from n, n included.
Within2(n) == {n} \cup {m \in Nodes : m \in Adj(n) \/ \E x \in Adj(n) : m \in Adj(x)}

\* The rank of a node.
Rank(x) == id_map(G_input, seed)[x]

\* There is a way to extend a simple path that has reached cur, over the
\* nodes in visited, to v inside Vn with at most left more edges, the ranks
\* of the internal nodes going on strictly decreasing from last.
RECURSIVE PathFrom(_, _, _, _, _, _)
PathFrom(cur, v, Vn, visited, last, left) ==
    /\ left >= 1
    /\ \E nb \in Adj(cur) \cap Vn :
          \/ nb = v
          \/ /\ nb \notin visited
             /\ last = None \/ Rank(nb) < last
             /\ PathFrom(nb, v, Vn, visited \cup {nb}, Rank(nb), left - 1)

\* u and v are joined by a qualifying path for node n.
MonotonePath(n, u, v) == PathFrom(u, v, Within2(n), {u, v}, None, max_search_depth)

\* No search went over its state budget.
BudgetKept == \A c \in searches : c.dequeued <= max_states

\* C18: when no search went over the budget, select_supernodes keeps node n
\* exactly when no two of its neighbours are adjacent or joined by a simple
\* path inside the two-hop neighbourhood of n, of at most max_search_depth
\* edges, with strictly decreasing ranks of its internal nodes.
C18_SurvivalCriterion ==
    (SnReturned /\ BudgetKept) =>
        \A n \in NodeSet(G_input) :
            n \in S <=>
                ~ \E u \in Adj(n) : \E v \in Adj(n) \ {u} :
                      v \in Adj(u) \/ MonotonePath(n, u, v)

\* select_supernodes has returned, within budget: it dropped a node because
\* a search that dequeued several states found a path, and kept a node of
\* one neighbour.
C18_Witness ==
    /\ SnReturned
    /\ BudgetKept
    /\ \E c \in searches : c.found /\ c.dequeued >= 2 /\ c.n \notin S
    /\ \E n \in S : Cardinality(Adj(n)) = 1

\* C19: a search dequeues at most max_states + 1 states and reports no path
\* when it dequeued more than max_states; a node whose neighbour pairs were
\* all searched without a path found stays a supernode.
C19_BoundedSearch ==
    /\ \A c \in searches :
          /\ c.dequeued <= max_states + 1
          /\ c.dequeued > max_states => ~c.found
    /\ SnReturned =>
          \A n \in NodeSet(G_input) :
              (\A u \in Adj(n) : \A v \in Adj(n) \ {u} :
                   \E c \in searches :
                       c.n = n /\ {c.u, c.v} = {u, v} /\ ~c.found)
                  => n \in S

\* A search gave up over its budget although a qualifying path exists, and
\* its node stayed a supernode.
C19_Witness ==
    /\ SnReturned
    /\ \E c \in searches :
          /\ c.dequeued > max_states
          /\ MonotonePath(c.n, c.u, c.v)
          /\ c.n \in S

\* The input graph has no self-loop (a Graph has no parallel edges).
SimpleInput == \A n \in NodeSet(G_input) : ~SeqContains(G_input.adj[n], n)

\* The maximum degree of the input graph.
MaxDegree ==
    IF NodeSet(G_input) = {} THEN 0
    ELSE CHOOSE m \in {Degree(G_input, n) : n \in NodeSet(G_input)} :
             \A n \in NodeSet(G_input) : Degree(G_input, n) <= m

\* C23: on a simple graph of maximum degree D, with max_search_depth >= 2
\* and max_states >= D + 1, select_supernodes returns exactly the nodes of
\* degree 0 or 1, and every hyperedge create_supernode_hyperedges builds has
\* exactly one member.
C23_SupernodesAreLowDegree ==
    (SnReturned /\ SimpleInput /\ max_search_depth >= 2 /\ max_states >= MaxDegree + 1)
        => /\ S = {n \in NodeSet(G_input) : Degree(G_input, n) <= 1}
           /\ pc = "sn_done" =>
                 \A i \in DOMAIN hyperedges : Cardinality(hyperedges[i]) = 1

\* select_supernodes returned with the smallest budget and depth the claim
\* allows, after a search that needed the whole budget to find the path
\* through n between two neighbours that are not adjacent; a node of degree
\* 1 stayed.
C23_Witness ==
    /\ pc = "sn_selected"
    /\ SimpleInput
    /\ max_search_depth = 2
    /\ max_states = MaxDegree + 1
    /\ \E c \in searches :
          c.found /\ c.dequeued = max_states /\ Cardinality(Adj(c.n)) >= 2 /\ c.n \notin S
    /\ \E n \in S : Cardinality(Adj(n)) = 1

\* ------------------------------------------- progress of create_fhs
\* C24: with m_max >= 2, on a graph without self-loops, every iteration of
\* the main loop of create_fhs emits a hyperedge of at least 2 members, the
\* selected start node and one of its neighbours in the working graph among
\* them, and removes at least one edge; after each iteration the working
\* graph is a subgraph of the input and has no node of degree 0.
C24_FhsProgress ==
    (script = "create_fhs" /\ m_max >= 2 /\ SimpleInput) =>
        /\ \A i \in DOMAIN before :
              /\ Cardinality(hyperedges[i]) >= 2
              /\ starts[i] \in hyperedges[i]
              /\ \E v \in hyperedges[i] : v # starts[i] /\ {starts[i], v} \in before[i]
              /\ Removed(i) # {}
        /\ Len(hyperedges) >= 1 =>
              /\ NodeSet(G) \subseteq NodeSet(G_input)
              /\ EdgeSet(G) \subseteq InputEdges
              /\ \A n \in NodeSet(G) : Degree(G, n) > 0

\* Two iterations with m_max >= 2 after which edges are left, the first of
\* which removed a node that lost its last edge and kept a node of its
\* hyperedge that still had one.
C24_Witness ==
    /\ script = "create_fhs"
    /\ m_max >= 2
    /\ Len(hyperedges) >= 2
    /\ NumberOfEdges(G) > 0
    /\ \E n \in hyperedges[1] : \A e \in After(1) : n \notin e
    /\ \E n \in hyperedges[1] : \E e \in After(1) : n \in e

\* ------------------------------------------------------- the caller's graph
\* C21: a step of create_fhs, greedy_vertex_cover / create_nch or
\* select_supernodes leaves the caller's graph with the nodes, the edges and
\* the edge capacities it had: removals happen on a private working copy.
\* (Only the caller's own steps, which end with pc = "built", change it.)
C21_InputNotMutated ==
    [][pc' # "built" => (G_input' = G_input /\ edge_capacity' = edge_capacity)]_vars

\* create_fhs has returned on a graph with capacities after removing edges
\* from a working copy that is an object of its own.
C21_Witness ==
    /\ pc = "fhs_done"
    /\ script = "fhs_main"
    /\ G.id # G_input.id
    /\ NumberOfEdges(G) < NumberOfEdges(G_input)
    /\ \E e \in DOMAIN edge_capacity : edge_capacity[e] # NoCap

====
